---- MODULE Spec2Model ----
(***************************************************************************)
(* Codec engines of the simd workspace: the hex encoder (scalar and         *)
(* vectorised), the base32 validation path (scalar and vectorised) and the  *)
(* base64 length calculator and decode entry points.                        *)
(*                                                                          *)
(* Bytes are integers 0..255, byte strings are sequences of bytes, and a    *)
(* pointer into a buffer is the offset from the buffer's first byte.        *)
(***************************************************************************)
EXTENDS Integers, Sequences, FiniteSets, TLC

\* ------------------------------------------------------- shared definitions

\* Longest input of the hex encoder: two 16-byte chunks and a 15-byte rest.
MaxHexLen == 47

Min(a, b) == IF a < b THEN a ELSE b

\* The inverse tables' entry for a byte outside the alphabet, and '='.
InvalidBits == 255
PadByte == 61

\* An uninitialised byte of an output buffer.
Uninit == 0 - 1

\* ------------------------------------------------------------ memory model

\* The bytes of buf with bytes written at offset off (writes past the end of
\* the buffer are dropped here and recorded by the caller as out of bounds).
Store(buf, off, bytes) ==
    [i \in 1..Len(buf) |->
        IF i > off /\ i <= off + Len(bytes) THEN bytes[i - off] ELSE buf[i]]

\* An access of len bytes at offset off lies inside a buffer of size bytes.
InBounds(size, off, len) == off >= 0 /\ off + len <= size

\* ---------------------------------------------------------------- hex: data

Endians == {"little", "big"}
Cases == {"Lower", "Upper"}

UPPER_TABLE ==
    <<48, 49, 50, 51, 52, 53, 54, 55, 56, 57, 65, 66, 67, 68, 69, 70>>
LOWER_TABLE ==
    <<48, 49, 50, 51, 52, 53, 54, 55, 56, 57, 97, 98, 99, 100, 101, 102>>

\* u16::from_ne_bytes([b0, b1]) on a target of endianness e.
from_ne_bytes(b0, b1, e) ==
    IF e = "little" THEN b0 + 256 * b1 ELSE 256 * b0 + b1

\* A slip in the store: the pair written low byte first on every target.
write_unaligned_le(y, e) == <<y % 256, y \div 256>>

\* The two bytes ptr.cast::<u16>().write_unaligned(y) puts in memory.
write_unaligned(y, e) ==
    IF e = "little" THEN <<y % 256, y \div 256>> ELSE <<y \div 256, y % 256>>

\* A slip in full_table: the low nibble's symbol first.
full_table_swapped(table, e) ==
    [i \in 0..255 |->
        from_ne_bytes(table[(i % 16) + 1], table[(i \div 16) + 1], e)]

\* full_table: entry i joins the symbols of i's high and low nibble.
full_table(table, e) ==
    [i \in 0..255 |->
        from_ne_bytes(table[(i \div 16) + 1], table[(i % 16) + 1], e)]

FULL_LOWER_TABLE == [e \in Endians |-> full_table(LOWER_TABLE, e)]
FULL_UPPER_TABLE == [e \in Endians |-> full_table(UPPER_TABLE, e)]

\* encode_raw_fallback: the 2n bytes written from dst on, in order.
encode_raw_fallback(src, case, e) ==
    LET table == IF case = "Lower" THEN FULL_LOWER_TABLE[e]
                                   ELSE FULL_UPPER_TABLE[e]
        pair(i) == write_unaligned(table[src[i]], e)
    IN  [j \in 1..(2 * Len(src)) |-> pair((j + 1) \div 2)[2 - (j % 2)]]

ENCODE_LOWER_LUT == LOWER_TABLE
ENCODE_UPPER_LUT == UPPER_TABLE

\* encode_u8x16: each byte lane is widened to 16 bits, x << 8 | x >> 4 masked
\* with 0x0f0f leaves the high nibble in the lane's low byte and the low
\* nibble in its high byte, and the swizzle replaces each by its symbol.
encode_u8x16(chunk, lut) ==
    LET x(i) == chunk[i]
        hi(i) == (x(i) * 256) % 65536
        lo(i) == x(i) \div 16
        masked(i) == ((hi(i) \div 256) % 16) * 256 + (lo(i) % 16)
        byte(j) == IF j % 2 = 1 THEN masked((j + 1) \div 2) % 256
                                ELSE masked((j + 1) \div 2) \div 256
    IN  [j \in 1..32 |-> lut[byte(j) + 1]]

\* A slip in the cursor after the prefix: one byte per source byte.
cur_after_prefix_single(cur, p) == cur + p

\* cur = cur.add(prefix.len() * 2)
cur_after_prefix(cur, p) == cur + p * 2

\* A slip in the loop's cursor: advanced by the chunk's width.
cur_after_chunk_half(cur) == cur + 16

\* cur = cur.add(32)
cur_after_chunk(cur) == cur + 32

\* ---- hex decode and check (crate::decode, crate::check)

InvalidNibble == 255

unhex(c) ==
    IF c >= 48 /\ c <= 57 THEN c - 48
    ELSE IF c >= 97 /\ c <= 102 THEN c - 87
    ELSE IF c >= 65 /\ c <= 70 THEN c - 55
    ELSE InvalidNibble

Ok(v) == [tag |-> "Ok", val |-> v]
Err(k) == [tag |-> "Err", kind |-> k]
Panic == [tag |-> "Panic"]
NoResult == [tag |-> "None"]

\* decode(src, dst): dstLen is the length of the output buffer.
hex_decode(src, dstLen) ==
    LET n == Len(src)
        bad == {i \in 1..n : unhex(src[i]) = InvalidNibble}
    IN  IF n % 2 # 0 THEN Err("InvalidLength")
        ELSE IF dstLen < n \div 2 THEN Panic
        ELSE IF bad # {} THEN Err("InvalidSymbol")
        ELSE Ok([i \in 1..(n \div 2) |->
                    16 * unhex(src[2 * i - 1]) + unhex(src[2 * i])])

\* check(src): whether src is a string of hex digits.
hex_check(src) == \A i \in 1..Len(src) : unhex(src[i]) # InvalidNibble

\* ------------------------------------------------------------- hex: inputs

\* Source bytes of the encoder: n consecutive byte values from seed on.
HexSeeds == {0, 40, 80, 120, 160, 200, 240}
Pattern(seed, n) == [i \in 1..n |-> (seed + i - 1) % 256]
Hello == <<104, 101, 108, 108, 111>>
Hello_hex == <<54, 56, 54, 53, 54, 99, 54, 99, 54, 102>>

EncInputs ==
    {Pattern(seed, n) : seed \in HexSeeds, n \in 0..MaxHexLen} \cup {Hello}

\* A slip in the generator of the ok cases: b'0' + x in place of from_digit.
from_digit_offset(x) == 48 + x

\* char::from_digit(x, 16).unwrap() as u8
from_digit(x) == IF x < 10 THEN 48 + x ELSE 97 + (x - 10)

\* Inputs of safety_unit_test: the digits 0-9a-f cycled to length n ...
OkCaseCount == 256
OkCase(n) == [i \in 1..n |-> from_digit((i - 1) % 16)]

\* ... and its five malformed inputs.
ErrCases ==
    { <<0>>, <<48, 0>>, <<97, 102, 0>>, <<97, 48, 99, 0>>,
      <<97, 48, 99, 49, 0>> }

\* Further inputs of check and decode: an ok case with one byte replaced.
MaxSubstLen == 6
SubstBytes == {0, 47, 58, 64, 65, 70, 71, 96, 103, 128, 255}
Subst(s, j, b) == [i \in 1..Len(s) |-> IF i = j THEN b ELSE s[i]]

TestInputs ==
    {OkCase(n) : n \in 0..(OkCaseCount - 1)}
    \cup ErrCases
    \cup UNION { {Subst(OkCase(n), j, b) : j \in 1..n, b \in SubstBytes} :
                 n \in 1..MaxSubstLen }

\* A decode buffer one byte short.
DecodeBufLen_short(src) == Len(src) \div 2 - 1

\* The decode buffer the tests hand to decode: vec![0; src.len() / 2].
DecodeBufLen(src) == Len(src) \div 2

\* ------------------------------------------------------------ base32: data

Kinds == {"Base32", "Base32Hex"}

\* "ABCDEFGHIJKLMNOPQRSTUVWXYZ234567" and "0123456789ABCDEFGHIJKLMNOPQRSTUV"
BASE32_CHARSET ==
    [i \in 1..32 |-> IF i <= 26 THEN 64 + i ELSE 50 + (i - 27)]
BASE32HEX_CHARSET ==
    [i \in 1..32 |-> IF i <= 10 THEN 47 + i ELSE 65 + (i - 11)]

\* The inverse table of a charset: the symbol's value, or 0xff.
decoding_table(symbols) ==
    [b \in 0..255 |->
        IF \E i \in 1..32 : symbols[i] = b
        THEN (CHOOSE i \in 1..32 : symbols[i] = b) - 1
        ELSE InvalidBits]

BASE32_TABLE == decoding_table(BASE32_CHARSET)
BASE32HEX_TABLE == decoding_table(BASE32HEX_CHARSET)

RECURSIVE BitOr(_, _)
BitOr(a, b) ==
    IF a = 0 THEN b
    ELSE IF b = 0 THEN a
    ELSE 2 * BitOr(a \div 2, b \div 2) + (IF a % 2 = 1 \/ b % 2 = 1 THEN 1 ELSE 0)

\* decode_bits::<N>(src, table) on the N bytes at src: the symbols' values
\* joined five bits each, and the OR of the looked-up values. The joined value
\* is kept modulo 2^AnsBits: the validation path reads its low four bits only.
AnsBits == 16
RECURSIVE decode_bits_from(_, _, _, _, _)
decode_bits_from(bytes, table, i, ans, flag) ==
    IF i > Len(bytes) THEN [ans |-> ans, flag |-> flag]
    ELSE LET bits == table[bytes[i]]
         IN  decode_bits_from(bytes, table, i + 1,
                 BitOr((ans * 32) % (2 ^ AnsBits), bits), BitOr(flag, bits))

decode_bits(bytes, table) == decode_bits_from(bytes, table, 1, 0, 0)

\* decode_extra::<false>(src, extra, null, table): the last, partial group of
\* extra symbols; its padding-only bits must be zero under the strict policy.
decode_extra(bytes, extra, table, strict) ==
    LET r == decode_bits(bytes, table)
        zero(k) == (~strict) \/ r.ans % (2 ^ k) = 0
    IN  IF extra = 0 THEN Ok(<<>>)
        ELSE IF extra = 2
             THEN IF r.flag # InvalidBits /\ zero(2) THEN Ok(<<>>) ELSE Err("Invalid")
        ELSE IF extra = 4
             THEN IF r.flag # InvalidBits /\ zero(4) THEN Ok(<<>>) ELSE Err("Invalid")
        ELSE IF extra = 5
             THEN IF r.flag # InvalidBits /\ zero(1) THEN Ok(<<>>) ELSE Err("Invalid")
        ELSE IF extra = 7
             THEN IF r.flag # InvalidBits /\ zero(3) THEN Ok(<<>>) ELSE Err("Invalid")
        ELSE [tag |-> "Unreachable"]

\* vsimd::base32::check_ascii32: every one of the 32 lanes is a symbol of the
\* kind's alphabet, decided by the byte's range.
check_ascii32(x, kind) ==
    \A i \in 1..Len(x) :
        IF kind = "Base32"
        THEN (x[i] >= 65 /\ x[i] <= 90) \/ (x[i] >= 50 /\ x[i] <= 55)
        ELSE (x[i] >= 48 /\ x[i] <= 57) \/ (x[i] >= 65 /\ x[i] <= 86)

\* Trailing '=' of the last group, six at most.
RECURSIVE count_padding(_, _)
count_padding(data, c) ==
    IF c < 6 /\ c < Len(data) /\ data[Len(data) - c] = PadByte
    THEN count_padding(data, c + 1)
    ELSE c

\* decode::decoded_length(src, padding): the symbols n to decode and the
\* bytes m they give, or a length error.
EXTRA == <<0, InvalidBits, 1, InvalidBits, 2, 3, InvalidBits, 4>>
base32_decoded_length(data, padding) ==
    IF Len(data) = 0 THEN [tag |-> "Ok", n |-> 0, m |-> 0]
    ELSE IF padding /\ Len(data) % 8 # 0 THEN Err("InvalidLength")
    ELSE LET n == IF padding THEN Len(data) - count_padding(data, 0)
                             ELSE Len(data)
             extra == EXTRA[(n % 8) + 1]
         IN  IF extra = InvalidBits THEN Err("InvalidLength")
             ELSE [tag |-> "Ok", n |-> n, m |-> (n \div 8) * 5 + extra]

\* Whether decode accepts data: the length is legal, every symbol of the n
\* is in the alphabet and the last partial group passes decode_extra.
base32_decode(data, kind, padding, strict) ==
    LET dl == base32_decoded_length(data, padding)
        table == IF kind = "Base32" THEN BASE32_TABLE ELSE BASE32HEX_TABLE
    IN  IF dl.tag # "Ok" THEN dl
        ELSE LET full == dl.n \div 8
                 bad == {g \in 0..(full - 1) :
                            \E i \in 1..8 : table[data[8 * g + i]] = InvalidBits}
             IN  IF bad # {} THEN Err("Invalid")
                 ELSE decode_extra(SubSeq(data, 8 * full + 1, dl.n),
                                   dl.n % 8, table, strict)

\* ---------------------------------------------------------- base32: inputs

\* Longest base32 input: two 32-byte chunks and a 31-byte rest.
MaxB32Len == 95

B32Text(kind, n) ==
    LET cs == IF kind = "Base32" THEN BASE32_CHARSET ELSE BASE32HEX_CHARSET
    IN  [i \in 1..n |-> cs[((i * 7) % 32) + 1]]

\* Bytes outside both alphabets, and '='.
B32BadBytes == {97, PadByte, 255}

\* The last c bytes replaced by b.
TailFill(s, c, b) == [i \in 1..Len(s) |-> IF i > Len(s) - c THEN b ELSE s[i]]

\* Valid text; one byte replaced by a byte outside the alphabet; the last
\* symbol replaced by the one of value zero; a run of padding at the end.
B32Inputs(kind) ==
    LET zero == IF kind = "Base32" THEN 65 ELSE 48
    IN  UNION { {B32Text(kind, n)}
                \cup {Subst(B32Text(kind, n), j, b) :
                         j \in 1..n, b \in B32BadBytes}
                \cup {TailFill(B32Text(kind, n), 1, zero)}
                \cup {TailFill(B32Text(kind, n), c, PadByte) : c \in 1..Min(n, 7)}
              : n \in 0..MaxB32Len }

\* ------------------------------------------------------------ base64: data

B64Kinds == {"Standard", "UrlSafe"}

\* "A-Za-z0-9+/" and "A-Za-z0-9-_"
STANDARD_CHARSET ==
    [i \in 1..64 |->
        IF i <= 26 THEN 64 + i
        ELSE IF i <= 52 THEN 96 + (i - 26)
        ELSE IF i <= 62 THEN 47 + (i - 52)
        ELSE IF i = 63 THEN 43 ELSE 47]
URL_SAFE_CHARSET ==
    [i \in 1..64 |-> IF i = 63 THEN 45 ELSE IF i = 64 THEN 95
                     ELSE STANDARD_CHARSET[i]]

\* Base64::charset
charset(kind) ==
    IF kind = "Standard" THEN STANDARD_CHARSET ELSE URL_SAFE_CHARSET

\* The machine word: usize of WordBits bits.
WordBits == 8
UsizeMax == 2 ^ WordBits - 1
usize(x) == x % (2 ^ WordBits)

\* A slip in estimated_decoded_length: the partial group is not counted.
estimated_decoded_length_floor(n) == usize((n \div 4) * 3)

\* Base64::estimated_decoded_length
estimated_decoded_length(n) ==
    IF n % 4 = 0
    THEN usize((n \div 4) * 3)
    ELSE usize(usize(n \div 4 + 1) * 3)

\* crate::decode::decoded_length(src, padding): the symbols n to decode and
\* the bytes m they give, or a length error.
decode_decoded_length(src, padding) ==
    IF Len(src) = 0 THEN [tag |-> "Ok", n |-> 0, m |-> 0]
    ELSE IF padding /\ Len(src) % 4 # 0 THEN Err("InvalidLength")
    ELSE LET len == Len(src)
             count == (IF src[len] = PadByte THEN 1 ELSE 0)
                      + (IF src[len - 1] = PadByte THEN 1 ELSE 0)
             n == IF padding THEN len - count ELSE len
         IN  IF n % 4 = 1 THEN Err("InvalidLength")
             ELSE [tag |-> "Ok", n |-> n,
                   m |-> (n \div 4) * 3
                         + (IF n % 4 = 0 THEN 0 ELSE (n % 4) - 1)]

\* A slip in Base64::decoded_length: the symbol count in place of the bytes.
Base64_decoded_length_n(data, padding) ==
    LET r == decode_decoded_length(data, padding)
    IN  IF r.tag = "Ok" THEN Ok(r.n) ELSE r

\* Base64::decoded_length: let (_, m) = decoded_length(data, padding)?; Ok(m)
Base64_decoded_length(data, padding) ==
    LET r == decode_decoded_length(data, padding)
    IN  IF r.tag = "Ok" THEN Ok(r.m) ELSE r

b64_value(kind, b) ==
    IF \E i \in 1..64 : charset(kind)[i] = b
    THEN (CHOOSE i \in 1..64 : charset(kind)[i] = b) - 1
    ELSE InvalidBits

\* multiversion::decode::auto_indirect(self, n, m, src, dst): the m bytes the
\* n symbols at src decode to, or an error on a byte outside the alphabet or
\* (strict policy) on non-zero padding-only bits.
decode_auto_indirect(kind, n, m, src, strict) ==
    LET v(i) == b64_value(kind, src[i])
        bad == {i \in 1..n : v(i) = InvalidBits}
        extra == n % 4
        last == v(n)
        byte(j) ==
            LET g == (j - 1) \div 3
                k == (j - 1) % 3
                bits == v(4 * g + 1) * 4096 + v(4 * g + 2) * 64
                        + (IF 4 * g + 3 <= n THEN v(4 * g + 3) ELSE 0)
            IN  IF k = 0 THEN bits \div 1024
                ELSE IF k = 1 THEN (bits \div 4) % 256
                ELSE ((bits % 4) * 64 + v(4 * g + 4)) % 256
    IN  IF bad # {} THEN Err("Invalid")
        ELSE IF strict /\ extra = 2 /\ last % 16 # 0 THEN Err("Invalid")
        ELSE IF strict /\ extra = 3 /\ last % 4 # 0 THEN Err("Invalid")
        ELSE Ok([j \in 1..m |-> byte(j)])

\* Base64::decode(src, dst) with dst of dstLen bytes: slice_mut(dst, m).
Base64_decode(kind, padding, src, dstLen, strict) ==
    LET dl == decode_decoded_length(src, padding)
    IN  IF dl.tag # "Ok" THEN dl
        ELSE IF ~(dstLen >= dl.m) THEN Panic
        ELSE LET r == decode_auto_indirect(kind, dl.n, dl.m, src, strict)
                 dst == [i \in 1..dstLen |-> Uninit]
             IN  IF r.tag # "Ok" THEN r
                 ELSE Ok(SubSeq(Store(dst, 0, r.val), 1, dl.m))

\* Base64::decode_inplace(data): the decoded bytes overwrite data's head.
Base64_decode_inplace(kind, padding, data, strict) ==
    LET dl == decode_decoded_length(data, padding)
    IN  IF dl.tag # "Ok" THEN dl
        ELSE LET r == decode_auto_indirect(kind, dl.n, dl.m, data, strict)
             IN  IF r.tag # "Ok" THEN r
                 ELSE Ok(SubSeq(Store(data, 0, r.val), 1, dl.m))

\* ---------------------------------------------------------- base64: inputs

\* Longest base64 text.
MaxB64Len == 5

\* 'A' (value 0), 'B' (value 1), '/' (standard only), '_' (url-safe only), '='
B64Bytes == {65, 66, 47, 95, PadByte}

B64Texts == UNION {[1..n -> B64Bytes] : n \in 0..MaxB64Len}

\* ------------------------------------------------------------------- state

VARIABLES
    hpc,        \* position of the hex run
    hsrc,       \* the input span
    hcase,      \* AsciiCase
    hpath,      \* the implementation the dispatch layer picked
    hendian,    \* endianness of the target
    hdst,       \* the output span
    hcur,       \* encode_raw_simd's write cursor, as an offset into dst
    hsplit,     \* align_to's split: lengths p, s and the number of chunks k
    hci,        \* chunks stored so far
    hconsumed,  \* source bytes encoded so far
    hoob,       \* a store fell outside the output span
    hchk,       \* result of check
    hres        \* result of decode

hvars == <<hpc, hsrc, hcase, hpath, hendian, hdst, hcur, hsplit, hci,
           hconsumed, hoob, hchk, hres>>

VARIABLES
    bpc,      \* position of the base32 run
    bdata,    \* the caller's text
    bkind,    \* Kind
    bpad,     \* the variant's padding flag
    bstrict,  \* whether non-zero padding-only bits are rejected
    bn,       \* the length of the slice handed to the check paths
    bcur,     \* check_simd's read cursor (src), as an offset
    bfbase,   \* check_fallback's slice: its first byte ...
    bflen,    \* ... and its length
    bfcur,    \* check_fallback's read cursor (src), as an offset
    biter,    \* loop iterations of the running function so far
    boob,     \* a load fell outside the slice
    bsimd,    \* result of check_simd
    bfall,    \* result of check_fallback on the same slice
    bdec      \* result of decode

bvars == <<bpc, bdata, bkind, bpad, bstrict, bn, bcur, bfbase, bflen, bfcur,
           biter, boob, bsimd, bfall, bdec>>

VARIABLES
    cpc,      \* position of the base64 run
    cdata,    \* the caller's text
    ckind,    \* Base64Kind
    cpad,     \* Base64's padding flag
    cstrict,  \* whether non-zero padding-only bits are rejected
    cn,       \* the length handed to estimated_decoded_length
    cdl,      \* result of Base64::decoded_length
    cest,     \* result of estimated_decoded_length
    cres      \* result of decode or decode_inplace

cvars == <<cpc, cdata, ckind, cpad, cstrict, cn, cdl, cest, cres>>

\* The frame of a step of one codec: the other codecs' state stays.
HexOnly == UNCHANGED <<bvars, cvars>>
B32Only == UNCHANGED <<hvars, cvars>>
B64Only == UNCHANGED <<hvars, bvars>>

\* ------------------------------------------------------------ hex: machine

NoSplit == [p |-> 0, k |-> 0, s |-> 0]

HexIdle ==
    /\ hpc = "idle" /\ hsrc = <<>> /\ hcase = "Lower" /\ hpath = "fallback"
    /\ hendian = "little" /\ hdst = <<>> /\ hcur = 0 /\ hsplit = NoSplit
    /\ hci = 0 /\ hconsumed = 0 /\ hoob = FALSE /\ hchk = NoResult
    /\ hres = NoResult

\* encode(src, dst, case) with dst of exactly 2n bytes, on either path.
HexEncodeInit ==
    /\ hpc = "encode"
    /\ hsrc \in EncInputs
    /\ hcase \in Cases
    /\ \/ hpath = "fallback" /\ hendian \in Endians
       \/ hpath = "simd" /\ hendian = "little"
    /\ hdst = [i \in 1..(2 * Len(hsrc)) |-> Uninit]
    /\ hcur = 0 /\ hsplit = NoSplit /\ hci = 0 /\ hconsumed = 0
    /\ hoob = FALSE /\ hchk = NoResult /\ hres = NoResult

\* The scalar path: encode_raw_fallback(src, dst, case).
hex_encode_fallback ==
    /\ HexOnly
    /\ hpc = "encode" /\ hpath = "fallback"
    /\ hdst' = Store(hdst, 0, encode_raw_fallback(hsrc, hcase, hendian))
    /\ hoob' = ~InBounds(Len(hdst), 0, 2 * Len(hsrc))
    /\ hconsumed' = Len(hsrc)
    /\ hpc' = "encoded"
    /\ UNCHANGED <<hsrc, hcase, hpath, hendian, hcur, hsplit, hci, hchk, hres>>

\* encode_raw_simd up to its loop: align_to splits src, the prefix goes to
\* the scalar encoder and the cursor moves past its output.
encode_raw_simd_prefix ==
    /\ HexOnly
    /\ hpc = "encode" /\ hpath = "simd"
    /\ \E p \in 0..Len(hsrc) :
       \E k \in 0..((Len(hsrc) - p) \div 16) :
          LET s == Len(hsrc) - p - 16 * k
              prefix == SubSeq(hsrc, 1, p)
          IN  /\ hsplit' = [p |-> p, k |-> k, s |-> s]
              /\ IF p # 0
                 THEN /\ hdst' = Store(hdst, hcur,
                                   encode_raw_fallback(prefix, hcase, hendian))
                      /\ hoob' = (hoob \/ ~InBounds(Len(hdst), hcur, 2 * p))
                      /\ hcur' = cur_after_prefix(hcur, p)
                 ELSE UNCHANGED <<hdst, hoob, hcur>>
              /\ hconsumed' = p
    /\ hpc' = "chunks"
    /\ UNCHANGED <<hsrc, hcase, hpath, hendian, hci, hchk, hres>>

\* One iteration of `for chunk in chunks`.
encode_raw_simd_chunk ==
    /\ HexOnly
    /\ hpc = "chunks" /\ hci < hsplit.k
    /\ LET first == hsplit.p + 16 * hci
           chunk == SubSeq(hsrc, first + 1, first + 16)
           lut == IF hcase = "Lower" THEN ENCODE_LOWER_LUT ELSE ENCODE_UPPER_LUT
           ans == encode_u8x16(chunk, lut)
       IN  /\ hdst' = Store(hdst, hcur, ans)
           /\ hoob' = (hoob \/ ~InBounds(Len(hdst), hcur, 32))
    /\ hcur' = cur_after_chunk(hcur)
    /\ hci' = hci + 1
    /\ hconsumed' = hconsumed + 16
    /\ UNCHANGED <<hpc, hsrc, hcase, hpath, hendian, hsplit, hchk, hres>>

\* After the loop: the suffix goes to the scalar encoder.
encode_raw_simd_suffix ==
    /\ HexOnly
    /\ hpc = "chunks" /\ hci = hsplit.k
    /\ LET suffix == SubSeq(hsrc, Len(hsrc) - hsplit.s + 1, Len(hsrc))
       IN  IF hsplit.s # 0
           THEN /\ hdst' = Store(hdst, hcur,
                             encode_raw_fallback(suffix, hcase, hendian))
                /\ hoob' = (hoob \/ ~InBounds(Len(hdst), hcur, 2 * hsplit.s))
           ELSE UNCHANGED <<hdst, hoob>>
    /\ hconsumed' = hconsumed + hsplit.s
    /\ hpc' = "encoded"
    /\ UNCHANGED <<hsrc, hcase, hpath, hendian, hcur, hsplit, hci, hchk, hres>>

\* decode(encode_buf, decode_buf) with decode_buf of src.len() bytes.
hex_decode_encoded ==
    /\ HexOnly
    /\ hpc = "encoded"
    /\ hres' = hex_decode(hdst, Len(hsrc))
    /\ hpc' = "decoded"
    /\ UNCHANGED <<hsrc, hcase, hpath, hendian, hdst, hcur, hsplit, hci,
                   hconsumed, hoob, hchk>>

\* check(src) and decode(src, buf) on a caller's text.
HexTestInit ==
    /\ hpc = "test"
    /\ hsrc \in TestInputs
    /\ hcase = "Lower" /\ hpath = "fallback" /\ hendian = "little"
    /\ hdst = <<>> /\ hcur = 0 /\ hsplit = NoSplit /\ hci = 0
    /\ hconsumed = 0 /\ hoob = FALSE /\ hchk = NoResult /\ hres = NoResult

hex_check_decode ==
    /\ HexOnly
    /\ hpc = "test"
    /\ hchk' = hex_check(hsrc)
    /\ hres' = hex_decode(hsrc, DecodeBufLen(hsrc))
    /\ hpc' = "tested"
    /\ UNCHANGED <<hsrc, hcase, hpath, hendian, hdst, hcur, hsplit, hci,
                   hconsumed, hoob>>

HexEncodeNext ==
    \/ hex_encode_fallback
    \/ encode_raw_simd_prefix
    \/ encode_raw_simd_chunk
    \/ encode_raw_simd_suffix
    \/ hex_decode_encoded

HexNext == hex_check_decode \/ HexEncodeNext

\* --------------------------------------------------------- base32: machine

B32Idle ==
    /\ bpc = "idle" /\ bdata = <<>> /\ bkind = "Base32" /\ bpad = FALSE
    /\ bstrict = TRUE /\ bn = 0 /\ bcur = 0 /\ bfbase = 0 /\ bflen = 0
    /\ bfcur = 0 /\ biter = 0 /\ boob = FALSE /\ bsimd = NoResult
    /\ bfall = NoResult /\ bdec = NoResult

B32Init ==
    /\ bpc = "length"
    /\ bkind \in Kinds
    /\ bdata \in B32Inputs(bkind)
    /\ bpad \in BOOLEAN
    /\ bstrict \in BOOLEAN
    /\ bn = 0 /\ bcur = 0 /\ bfbase = 0 /\ bflen = 0 /\ bfcur = 0
    /\ biter = 0 /\ boob = FALSE /\ bsimd = NoResult /\ bfall = NoResult
    /\ bdec = NoResult

b32_table == IF bkind = "Base32" THEN BASE32_TABLE ELSE BASE32HEX_TABLE

\* check(data): decoded_length first; a length error ends the call, otherwise
\* the first n bytes go to the check paths (both are run, one after the other).
base32_check_length ==
    /\ B32Only
    /\ bpc = "length"
    /\ LET dl == base32_decoded_length(bdata, bpad)
       IN  IF dl.tag = "Ok"
           THEN /\ bn' = dl.n
                /\ bpc' = "simd"
                /\ UNCHANGED <<bsimd, bfall, bdec>>
           ELSE /\ bsimd' = dl /\ bfall' = dl /\ bdec' = dl
                /\ bpc' = "done"
                /\ UNCHANGED bn
    /\ UNCHANGED <<bdata, bkind, bpad, bstrict, bcur, bfbase, bflen, bfcur,
                   biter, boob>>

\* A slip in `end`: the number of chunks in place of their bytes.
check_simd_end_chunks(len) == len \div 32

\* `end` of check_simd: src.add(len / 32 * 32).
check_simd_end(len) == (len \div 32) * 32

\* One iteration of check_simd's loop: load 32 bytes, check, advance.
check_simd_chunk ==
    /\ B32Only
    /\ bpc = "simd" /\ bcur < check_simd_end(bn)
    /\ boob' = (boob \/ ~InBounds(bn, bcur, 32))
    /\ LET x == SubSeq(bdata, bcur + 1, Min(bcur + 32, Len(bdata)))
       IN  IF check_ascii32(x, bkind)
           THEN /\ bcur' = bcur + 32
                /\ biter' = biter + 1
                /\ UNCHANGED <<bpc, bsimd, bfbase, bflen, bfcur>>
           ELSE \* ensure!(is_valid) fails; the scalar run on the slice follows
                /\ bsimd' = Err("Invalid")
                /\ bpc' = "fallback"
                /\ bfbase' = 0 /\ bflen' = bn /\ bfcur' = 0 /\ biter' = 0
                /\ UNCHANGED bcur
    /\ UNCHANGED <<bdata, bkind, bpad, bstrict, bn, bfall, bdec>>

\* After the loop: len %= 32; check_fallback(slice(src, len), kind).
check_simd_rest ==
    /\ B32Only
    /\ bpc = "simd" /\ ~(bcur < check_simd_end(bn))
    /\ bfbase' = bcur /\ bflen' = bn % 32 /\ bfcur' = bcur
    /\ biter' = 0
    /\ bpc' = "simd_rest"
    /\ UNCHANGED <<bdata, bkind, bpad, bstrict, bn, bcur, boob, bsimd, bfall,
                   bdec>>

\* A slip in `end`: the number of groups in place of their bytes.
check_fallback_end_groups(base, len) == base + len \div 8

\* `end` of check_fallback: src.add(len / 8 * 8).
check_fallback_end(base, len) == base + (len \div 8) * 8

\* What follows the return of check_fallback with result r: called from
\* check_simd, r is check_simd's result and the scalar run on the whole slice
\* starts; called on the whole slice, r is the scalar result.
b32_return(r) ==
    IF bpc = "simd_rest"
    THEN /\ bsimd' = r
         /\ bpc' = "fallback"
         /\ bfbase' = 0 /\ bflen' = bn /\ bfcur' = 0 /\ biter' = 0
         /\ UNCHANGED bfall
    ELSE /\ bfall' = r
         /\ bpc' = "checked"
         /\ UNCHANGED <<bsimd, bfbase, bflen, bfcur, biter>>

\* One iteration of check_fallback's loop: decode_bits::<8>, ensure, advance.
check_fallback_group ==
    /\ B32Only
    /\ bpc \in {"simd_rest", "fallback"}
    /\ bfcur < check_fallback_end(bfbase, bflen)
    /\ boob' = (boob \/ ~InBounds(bfbase + bflen, bfcur, 8))
    /\ LET r == decode_bits(SubSeq(bdata, bfcur + 1, Min(bfcur + 8, Len(bdata))),
                            b32_table)
       IN  IF r.flag # InvalidBits
           THEN /\ bfcur' = bfcur + 8
                /\ biter' = biter + 1
                /\ UNCHANGED <<bpc, bsimd, bfall, bfbase, bflen>>
           ELSE b32_return(Err("Invalid"))
    /\ UNCHANGED <<bdata, bkind, bpad, bstrict, bn, bcur, bdec>>

\* After the loop: len %= 8; decode_extra::<false>(src, len, null, table).
check_fallback_extra ==
    /\ B32Only
    /\ bpc \in {"simd_rest", "fallback"}
    /\ ~(bfcur < check_fallback_end(bfbase, bflen))
    /\ LET len == bflen % 8
       IN  /\ boob' = (boob \/ ~InBounds(bfbase + bflen, bfcur, len))
           /\ b32_return(decode_extra(
                  SubSeq(bdata, bfcur + 1, Min(bfcur + len, Len(bdata))),
                  len, b32_table, bstrict))
    /\ UNCHANGED <<bdata, bkind, bpad, bstrict, bn, bcur, bdec>>

\* decode(data, dst) on the same text.
base32_decode_text ==
    /\ B32Only
    /\ bpc = "checked"
    /\ bdec' = base32_decode(bdata, bkind, bpad, bstrict)
    /\ bpc' = "done"
    /\ UNCHANGED <<bdata, bkind, bpad, bstrict, bn, bcur, bfbase, bflen,
                   bfcur, biter, boob, bsimd, bfall>>

B32Next ==
    \/ base32_check_length
    \/ check_simd_chunk
    \/ check_simd_rest
    \/ check_fallback_group
    \/ check_fallback_extra
    \/ base32_decode_text

\* --------------------------------------------------------- base64: machine

B64Idle ==
    /\ cpc = "idle" /\ cdata = <<>> /\ ckind = "Standard" /\ cpad = FALSE
    /\ cstrict = TRUE /\ cn = 0 /\ cdl = NoResult /\ cest = NoResult
    /\ cres = NoResult

\* A caller with a text to decode.
B64TextInit ==
    /\ cpc = "text"
    /\ cdata \in B64Texts
    /\ ckind \in B64Kinds
    /\ cpad \in BOOLEAN
    /\ cstrict \in BOOLEAN
    /\ cn = Len(cdata)
    /\ cdl = NoResult /\ cest = NoResult /\ cres = NoResult

\* A caller sizing a buffer for n symbols, n any usize.
B64SizeInit ==
    /\ cpc = "size"
    /\ cn \in 0..UsizeMax
    /\ cdata = <<>> /\ ckind \in B64Kinds /\ cpad \in BOOLEAN
    /\ cstrict = TRUE
    /\ cdl = NoResult /\ cest = NoResult /\ cres = NoResult

\* estimated_decoded_length(n) alone.
base64_estimate ==
    /\ B64Only
    /\ cpc = "size"
    /\ cest' = estimated_decoded_length(cn)
    /\ cpc' = "sized"
    /\ UNCHANGED <<cdata, ckind, cpad, cstrict, cn, cdl, cres>>

\* decoded_length(data) and estimated_decoded_length(data.len()).
base64_lengths ==
    /\ B64Only
    /\ cpc = "text"
    /\ cdl' = Base64_decoded_length(cdata, cpad)
    /\ cest' = estimated_decoded_length(cn)
    /\ cpc' = "measured"
    /\ UNCHANGED <<cdata, ckind, cpad, cstrict, cn, cres>>

\* decode(data, dst); dst holds the estimate, the exact length, or one less.
base64_decode ==
    /\ B64Only
    /\ cpc = "measured"
    /\ \E dstLen \in {cest} \cup (IF cdl.tag = "Ok"
                                  THEN {cdl.val, cdl.val - 1} \ {0 - 1}
                                  ELSE {}) :
          cres' = Base64_decode(ckind, cpad, cdata, dstLen, cstrict)
    /\ cpc' = "decoded"
    /\ UNCHANGED <<cdata, ckind, cpad, cstrict, cn, cdl, cest>>

\* decode_inplace(data)
base64_decode_inplace ==
    /\ B64Only
    /\ cpc = "measured"
    /\ cres' = Base64_decode_inplace(ckind, cpad, cdata, cstrict)
    /\ cpc' = "decoded_inplace"
    /\ UNCHANGED <<cdata, ckind, cpad, cstrict, cn, cdl, cest>>

B64Next ==
    \/ base64_estimate
    \/ base64_lengths
    \/ base64_decode
    \/ base64_decode_inplace

\* ------------------------------------------------------------------ specs

vars == <<hvars, bvars, cvars>>

InitHexEncode == HexEncodeInit /\ B32Idle /\ B64Idle
InitHexTest == HexTestInit /\ B32Idle /\ B64Idle
InitHex == InitHexEncode \/ InitHexTest
InitB32 == B32Init /\ HexIdle /\ B64Idle
InitB64 == (B64TextInit \/ B64SizeInit) /\ HexIdle /\ B32Idle

\* The hex codec.
SpecHex == InitHex /\ [][HexNext]_vars

\* The base32 validation paths.
SpecB32 == InitB32 /\ [][B32Next]_vars

\* The base64 length calculator and decode entry points.
SpecB64 == InitB64 /\ [][B64Next]_vars

\* check and decode of hex and base32.
InitCheck == InitHexTest \/ InitB32
NextCheck == hex_check_decode \/ B32Next
SpecCheck == InitCheck /\ [][NextCheck]_vars

\* The chunk loops: the vectorised hex encoder and the base32 check paths.
InitChunks == InitHexEncode \/ InitB32
NextChunks == HexEncodeNext \/ B32Next
SpecChunks == InitChunks /\ [][NextChunks]_vars

\* ----------------------------------------------------------------- claims

HexAlphabet == (48..57) \cup (65..70) \cup (97..102)

\* The symbol of nibble d, by arithmetic on the digit.
HexDigit(d, case) ==
    IF d < 10 THEN 48 + d
    ELSE IF case = "Lower" THEN 97 + (d - 10) ELSE 65 + (d - 10)

IsOk(r) == r.tag = "Ok"

\* C1: hex round trip. Whatever bytes were encoded, in either case and on
\* either path, decode of the encoder's output succeeds and returns them.
C1_RoundTrip == hpc = "decoded" => hres = Ok(hsrc)

C1_Witness ==
    /\ hpc = "decoded" /\ hpath = "simd" /\ hcase = "Upper"
    /\ Len(hsrc) = 47 /\ hsplit.k = 2 /\ hsplit.s = 15
    /\ hres = Ok(hsrc)

C3_EncodePathEquivalence ==
    hpath = "simd" =>
        LET whole == encode_raw_fallback(hsrc, hcase, hendian)
        IN  /\ hpc = "chunks" =>
                  /\ hcur = 2 * hsplit.p + 32 * hci
                  /\ SubSeq(hdst, 1, hcur) = SubSeq(whole, 1, hcur)
            /\ hpc \in {"encoded", "decoded"} => hdst = whole

C3_Witness ==
    /\ hpc = "encoded" /\ hpath = "simd"
    /\ hsplit.p = 7 /\ hsplit.k = 2 /\ hsplit.s = 5
    /\ hdst = encode_raw_fallback(hsrc, hcase, hendian)

\* C4: on every slice the two base32 check paths return the same result, Ok
\* or the same error.
C4_CheckPathEquivalence ==
    bpc = "checked" => /\ bsimd = bfall
                       /\ bsimd.tag \in {"Ok", "Err"}

C4_Witness ==
    /\ bpc = "checked" /\ bn > 64 /\ bn % 32 # 0
    /\ bsimd = Err("Invalid") /\ bfall = Err("Invalid")
    /\ check_ascii32(SubSeq(bdata, 1, 64), bkind)

\* C5: the scalar hex encoder writes 2n bytes, the symbols of the high and
\* then the low nibble of each input byte; every entry v of the pair table is
\* the pair (table[v >> 4], table[v & 0xf]); "hello" gives "68656c6c6f".
C5_ScalarEncode ==
    (hpath = "fallback" /\ hpc \in {"encoded", "decoded"}) =>
        /\ Len(hdst) = 2 * Len(hsrc)
        /\ \A i \in 1..Len(hsrc) :
              /\ hdst[2 * i - 1] = HexDigit(hsrc[i] \div 16, hcase)
              /\ hdst[2 * i] = HexDigit(hsrc[i] % 16, hcase)
        /\ \A v \in 0..255 :
              /\ write_unaligned(FULL_LOWER_TABLE[hendian][v], hendian)
                    = <<LOWER_TABLE[(v \div 16) + 1], LOWER_TABLE[(v % 16) + 1]>>
              /\ write_unaligned(FULL_UPPER_TABLE[hendian][v], hendian)
                    = <<UPPER_TABLE[(v \div 16) + 1], UPPER_TABLE[(v % 16) + 1]>>
        /\ (hsrc = Hello /\ hcase = "Lower") => hdst = Hello_hex

C5_Witness ==
    /\ hpath = "fallback" /\ hpc = "encoded" /\ hendian = "big"
    /\ hsrc = Hello /\ hcase = "Lower" /\ hdst = Hello_hex

\* C6: when decode or decode_inplace succeeds, the slice it returns has the
\* length decoded_length returns for the same text, all of it written.
C6_LengthAgreement ==
    (cpc \in {"decoded", "decoded_inplace"} /\ IsOk(cres)) =>
        /\ IsOk(cdl)
        /\ Len(cres.val) = cdl.val
        /\ \A i \in 1..Len(cres.val) : cres.val[i] \in 0..255

C6_Witness ==
    /\ cpc = "decoded" /\ cpad /\ cdata = <<65, 66, 65, PadByte>>
    /\ IsOk(cres) /\ Len(cres.val) = 2 /\ cdl = Ok(2)

\* C7: the estimate is 3 * (n / 4) for n a multiple of 4 and 3 * (n / 4 + 1)
\* otherwise, computed without wrapping for every n of the word, and it is at
\* least the decoded length of every text of n bytes that has one.
C7_EstimateUpperBound ==
    cpc \in {"sized", "measured", "decoded", "decoded_inplace"} =>
        /\ cest = IF cn % 4 = 0 THEN 3 * (cn \div 4) ELSE 3 * (cn \div 4 + 1)
        /\ cest <= UsizeMax
        /\ IsOk(cdl) => cdl.val <= cest

C7_Witness ==
    /\ cpc = "measured" /\ cn = 3 /\ ~cpad
    /\ cdl = Ok(2) /\ cest = 3

C10_ChunkBounds ==
    /\ ~hoob /\ ~boob
    /\ hpc = "chunks" =>
          /\ hcur = 2 * hconsumed
          /\ hconsumed = hsplit.p + 16 * hci
          /\ hci <= hsplit.k
          /\ hci < hsplit.k => InBounds(2 * Len(hsrc), hcur, 32)
    /\ (hpath = "simd" /\ hpc \in {"encoded", "decoded"}) =>
          /\ hconsumed = Len(hsrc)
          /\ Len(hdst) = 2 * Len(hsrc)
          /\ \A i \in 1..Len(hdst) : hdst[i] # Uninit
    /\ bpc = "simd" =>
          /\ bcur = 32 * biter /\ bcur <= bn /\ biter <= bn \div 32
          /\ bcur < check_simd_end(bn) => InBounds(bn, bcur, 32)
          /\ ~(bcur < check_simd_end(bn)) => bn - bcur = bn % 32
    /\ bpc = "simd_rest" => /\ bfbase = bcur /\ bflen = bn % 32
                            /\ bfbase + bflen = bn
    /\ bpc \in {"simd_rest", "fallback"} =>
          /\ bfcur = bfbase + 8 * biter /\ bfcur <= bfbase + bflen
          /\ biter <= bflen \div 8
          /\ bfcur < check_fallback_end(bfbase, bflen)
                => InBounds(bfbase + bflen, bfcur, 8)
          /\ ~(bfcur < check_fallback_end(bfbase, bflen))
                => bfbase + bflen - bfcur = bflen % 8

C10_Witness ==
    /\ bpc = "simd_rest" /\ bn = 95 /\ bcur = 64 /\ bflen = 31
    /\ bfcur = 88 /\ biter = 3 /\ ~boob

====
